---- MODULE Spec2Model ----
(***************************************************************************)
(* ReactDiagramEditor (spiffworkflow-frontend/src/components) as a state   *)
(* machine.  The component has three pieces of React state and three       *)
(* effects; a commit runs the cleanups of the effects whose dependencies   *)
(* changed and then their bodies, in declaration order, all reading the    *)
(* values of the render they belong to.  State set inside an effect is     *)
(* visible to the next render only.                                        *)
(***************************************************************************)
EXTENDS Integers, Sequences, FiniteSets, TLC

\* ---------------------------------------------------------------- bounds
\* longest text typed into the find-by-id input
MaxIdLen == 2
MaxHostChanges == 1
MaxEngineEvents == 1

\* ------------------------------------------------------- input alphabets
DiagramTypes == {"bpmn", "dmn", "readonly"}

\* a document text is a sequence of tokens; the empty text is falsy in JS
NoText == <<>>

InlineDocs == {<<"<inline-X/>">>}
Urls == {"/u"}
FileNames == {"a.bpmn", "b.bpmn"}
ModelIds == {"pm"}
MakeIdTokens == {"aaaaaaa", "bbbbbbb"}
Absent == ""

\* the host callbacks the create-modeler effect depends on
BridgeCallbacks ==
    {"onDataStoresRequested", "onDmnFilesRequested", "onElementClick",
     "onElementsChanged", "onJsonSchemaFilesRequested", "onLaunchBpmnEditor",
     "onLaunchDmnEditor", "onLaunchJsonSchemaEditor", "onLaunchMarkdownEditor",
     "onLaunchScriptEditor", "onLaunchMessageEditor", "onMessagesRequested",
     "onSearchProcessModels", "onServiceTasksRequested"}

\* what the host may pass for those props: which are supplied, and the
\* identity of the functions (a host that re-creates them changes gen)
HostCallbackProps ==
    {[supplied |-> s, gen |-> g] :
        s \in {BridgeCallbacks, {},
               BridgeCallbacks \ {"onJsonSchemaFilesRequested"}},
        g \in 0..1}

\* execution-state lists the host may pass (0 stands for no list)
TaskListIds == 0..2

VARIABLES
    phase,                        \* "mounting", "mounted", "unmounted"
    \* props
    diagramType, hostCbs, onCallActivityOverlayClick, tasks,
    diagramXML, url, fileName, processModelId,
    \* React state
    diagramXMLString, diagramModelerState, performingXmlUpdates,
    \* effects: dependencies of the last run, and the pending cleanup
    deps1, deps2, deps3, cleanup2,
    \* the engine instances constructed so far, fetches and imports in flight
    engines, fetches, pendingImports,
    \* observation of the run
    resolutions, combos, lastWrite, lastResolved, lastImport, hostCalls,
    lastEvent, hostArgs, logged, hostChanges, engineEvents,
    \* whether the embedded engine drops the listeners bound on a handle when
    \* the handle is destroyed (a property of the engine build)
    destroyDropsListeners,
    \* ProcessInstanceFindById: React state, backend calls in flight, the
    \* path navigated to, and observation: the last event handled, the last
    \* change of the input, whether the invalid flag stands since a
    \* submission of an empty id
    processInstanceId, processInstanceIdValid, calls, navigated,
    lastHandled, lastChange, invalidBySubmit

props == <<diagramType, hostCbs, onCallActivityOverlayClick, tasks,
           diagramXML, url, fileName, processModelId>>
reactState == <<diagramXMLString, diagramModelerState, performingXmlUpdates>>
effects == <<deps1, deps2, deps3, cleanup2>>
observed == <<resolutions, combos, lastWrite, lastResolved, lastImport>>
findVars == <<processInstanceId, processInstanceIdValid, calls, navigated,
              lastHandled, lastChange, invalidBySubmit>>
editorVars == <<phase, props, reactState, effects, engines, fetches,
                pendingImports, observed, hostCalls, lastEvent, hostArgs,
                logged, hostChanges, engineEvents, destroyDropsListeners>>
vars == <<editorVars, findVars>>

\* no engine event or overlay click was handled in the last step
NoEvent == [name |-> "", h |-> 0, arg |-> <<>>, error |-> FALSE]

\* --------------------------------------------------------------- helpers
\* String.prototype.replaceAll, token by token
replaceAll(text, placeholder, value) ==
    [i \in DOMAIN text |-> IF text[i] = placeholder THEN value ELSE text[i]]

\* what the servers answer
UrlText(u) == <<"<fetched from ", u, "/>">>
FileContents(pm, f) == <<"<file ", pm, f, "/>">>
NewDiagramTemplate(name) ==
    IF name = "/new_dmn_diagram.dmn"
    THEN <<"<decision id=", "{{DECISION_ID}}", "/>">>
    ELSE <<"<process id=", "{{PROCESS_ID}}", "/>">>

\* the resolver's dependency list with fileName left out
E3DepsIgnoringFileName ==
    <<diagramModelerState, diagramType, diagramXML, performingXmlUpdates,
      processModelId, url>>

\* the import effect's dependency list with diagramModelerState left out
E2DepsIgnoringModeler ==
    <<diagramType, diagramXMLString, 0, onCallActivityOverlayClick, tasks>>

\* the dependency lists of the three effects
E1Deps == <<diagramType, hostCbs>>
E2Deps == <<diagramType, diagramXMLString, diagramModelerState,
            onCallActivityOverlayClick, tasks>>
E3Deps == <<diagramModelerState, diagramType, diagramXML, fileName,
            performingXmlUpdates, processModelId, url>>

\* the source choice with the URL tested before the inline document
ChooseSourceUrlFirst(xml, u, f) ==
    IF u # Absent THEN "url"
    ELSE IF xml # NoText THEN "inline"
    ELSE IF f # Absent THEN "file"
    ELSE "blank"

\* which source the get-the-diagram-xml effect uses
ChooseSource(xml, u, f) ==
    IF xml # NoText THEN "inline"
    ELSE IF u # Absent THEN "url"
    ELSE IF f # Absent THEN "file"
    ELSE "blank"

\* ------------------------------------------------ execution state, documents
Task(id, proc, st, ty) ==
    [bpmn_identifier |-> id, bpmn_process_definition_identifier |-> proc,
     state |-> st, typename |-> ty]

\* the list a TaskListId stands for
TaskList(t) ==
    IF t = 1
    THEN <<Task(<<"Task_1">>, "Process_main", "COMPLETED", "Task"),
           Task(<<"Task_2">>, "Process_main", "ERROR", "Task"),
           Task(<<"Task_3">>, "Process_main", "FUTURE", "Task"),
           Task(<<"Task_4">>, "Process_sub", "READY", "Task"),
           Task(<<"Task_5">>, "Process_main", "CANCELLED", "Task"),
           Task(<<"Ghost_1">>, "Process_main", "WAITING", "Task"),
           Task(<<"Call_2">>, "Process_main", "MAYBE", "CallActivity"),
           Task(<<"Call_3">>, "Process_sub", "STARTED", "CallActivity"),
           Task(<<"Call_9">>, "Process_main", "STARTED", "CallActivity"),
           Task(<<"Start">>, "Process_main", "COMPLETED", "StartEvent"),
           Task(<<"EndJoin", "_3">>, "Process_main", "COMPLETED", "Task"),
           Task(<<"Call_1">>, "Process_main", "STARTED", "CallActivity")>>
    ELSE IF t = 2
    THEN <<Task(<<"Task_1">>, "Process_main", "WAITING", "Task"),
           Task(<<"Task_3">>, "Process_main", "READY", "Task"),
           Task(<<"Root">>, "Process_main", "ERROR", "Task"),
           Task(<<"Task_5", "BoundaryEventSplit">>, "Process_main", "STARTED",
                "Task"),
           Task(<<"Call_1">>, "Process_main", "MAYBE", "CallActivity")>>
    ELSE <<>>

\* what the engine renders for a document: the process identifiers under the
\* root element, and the nodes on the canvas
DocProcessIdentifiers(text) == {"Process_main"}
DocNodes(text) ==
    {<<"Task_1">>, <<"Task_2">>, <<"Task_3">>, <<"Task_4">>, <<"Task_5">>,
     <<"Call_1">>, <<"Call_2">>, <<"Call_3">>, <<"Root">>, <<"Start">>, <<"End">>, <<"EndJoin", "_3">>,
     <<"Task_5", "BoundaryEventSplit">>}

\* ------------------------------------------------------------- the engine
NewModeler(type, cbs) ==
    [kind |-> type, cbs |-> cbs.supplied, destroys |-> 0, doc |-> NoText,
     doneHandlers |-> <<>>, parseHandlers |-> 0,
     markers |-> {}, overlays |-> {}, fits |-> 0,
     \* the item-aware elements set on the document's elements, how many
     \* were created, whether the highlight pass raised, and the operations
     \* of the load cycle in their order
     itemDefs |-> {}, created |-> 0, raised |-> FALSE, log |-> <<>>]

Live(e, h) == e[h].destroys = 0
LiveHandles == {h \in DOMAIN engines : Live(engines, h)}

\* a destroy() that leaves the engine as it is
DestroyKeepingEngine(e, h) == e

\* modeler.destroy()
Destroy(e, h) ==
    [e EXCEPT ![h].destroys = @ + 1,
              ![h].doneHandlers = IF destroyDropsListeners THEN <<>> ELSE @,
              ![h].parseHandlers = IF destroyDropsListeners THEN 0 ELSE @,
              ![h].markers = {}, ![h].overlays = {}, ![h].fits = 0,
              ![h].itemDefs = {}, ![h].created = 0]

\* the engine whose canvas is in the page: the create-modeler effect empties
\* the diagram container before it constructs the next engine into it
InDom(e, h) == h = Len(e) /\ Live(e, h)

\* the body of the import effect after its early return: bind onImportDone,
\* importXML (the engine drops what it showed before), zoom(0), and bind the
\* parse-complete handler of fixUnresolvedReferences.  zoom(0) fits the
\* viewport of the canvas; a dmn engine has no active viewer to fit before
\* its first import has completed.
ImportXml(e, h, xml, type, overlayCb, ts) ==
    [e EXCEPT ![h].doneHandlers =
                  Append(@, [tasks |-> ts, diagramType |-> type,
                             onCallActivityOverlayClick |-> overlayCb]),
              ![h].doc = xml,
              ![h].markers = {}, ![h].overlays = {},
              ![h].itemDefs = {}, ![h].created = 0, ![h].raised = FALSE,
              ![h].fits = IF Live(e, h) /\ type # "dmn" THEN 1 ELSE @,
              ![h].log = IF Live(e, h) /\ type # "dmn"
                         THEN <<"import", "fit">> ELSE <<"import">>,
              ![h].parseHandlers = IF type # "dmn" THEN @ + 1 ELSE @]

\* --------------------------------------------------------------- commit
RenderPending ==
    /\ phase = "mounted"
    /\ (deps1 # E1Deps \/ deps2 # E2Deps \/ deps3 # E3Deps)

Settled == phase = "mounted" /\ ~RenderPending

Inputs == [inline |-> diagramXML, url |-> url, file |-> fileName,
           type |-> diagramType]

Quiescent ==
    /\ Settled
    /\ fetches = {}
    /\ pendingImports = {}

\* the fetch the get-the-diagram-xml effect starts for a source
StartedFetch(src, id) ==
    [id |-> id, src |-> src, given |-> Inputs, h |-> diagramModelerState,
     key |-> IF src = "url" THEN url
             ELSE IF src = "file" THEN fileName
             ELSE IF diagramType = "dmn" THEN "/new_dmn_diagram.dmn"
             ELSE "/new_bpmn_diagram.bpmn",
     pm |-> processModelId,
     handler |-> IF src = "url" THEN "none"
                 ELSE IF src = "file" THEN "json"
                 ELSE IF diagramType = "dmn" THEN "dmnTextHandler"
                 ELSE "bpmnTextHandler"]

Commit(first) ==
    LET run1 == first \/ deps1 # E1Deps
        run2 == first \/ deps2 # E2Deps
        run3 == first \/ deps3 # E3Deps
        \* cleanups of the effects that run again
        e0 == IF ~first /\ run2 /\ cleanup2 # 0
              THEN Destroy(engines, cleanup2) ELSE engines
        \* create the diagram modeler
        made == Len(e0) + 1
        e1 == IF run1 THEN Append(e0, NewModeler(diagramType, hostCbs)) ELSE e0
        \* import xml
        imports == run2 /\ diagramXMLString # NoText /\ diagramModelerState # 0
        e2 == IF imports
              THEN ImportXml(e1, diagramModelerState, diagramXMLString,
                             diagramType, onCallActivityOverlayClick, tasks)
              ELSE e1
        \* get the diagram xml
        resolves == run3 /\ diagramModelerState # 0 /\ ~performingXmlUpdates
        src == ChooseSource(diagramXML, url, fileName)
    IN  /\ engines' = e2
        /\ deps1' = E1Deps /\ deps2' = E2Deps /\ deps3' = E3Deps
        /\ cleanup2' = IF run2 THEN (IF imports THEN diagramModelerState ELSE 0)
                       ELSE cleanup2
        /\ diagramModelerState' = IF run1 THEN made ELSE diagramModelerState
        /\ pendingImports' =
              IF imports
              THEN pendingImports \cup
                     {[h |-> diagramModelerState, text |-> diagramXMLString]}
              ELSE pendingImports
        /\ lastImport' =
              IF imports
              THEN [h |-> diagramModelerState, text |-> diagramXMLString,
                    live |-> Live(e1, diagramModelerState),
                    kindOk |-> e1[diagramModelerState].kind = diagramType,
                    latest |-> diagramXMLString = lastResolved]
              ELSE lastImport
        /\ diagramXMLString' =
              IF resolves /\ src = "inline" THEN diagramXML ELSE diagramXMLString
        /\ fetches' =
              IF resolves /\ src # "inline"
              THEN fetches \cup {StartedFetch(src, resolutions + 1)}
              ELSE fetches
        /\ resolutions' = IF resolves THEN resolutions + 1 ELSE resolutions
        /\ lastWrite' =
              IF resolves /\ src = "inline"
              THEN [id |-> resolutions + 1, src |-> "inline",
                    text |-> diagramXML, given |-> Inputs]
              ELSE lastWrite
        /\ lastResolved' =
              IF resolves /\ src = "inline" THEN diagramXML ELSE lastResolved
        /\ hostCalls' = <<>> /\ lastEvent' = NoEvent /\ hostArgs' = <<>>
        /\ logged' = <<>>
        /\ UNCHANGED <<props, performingXmlUpdates, combos, hostChanges,
                       engineEvents, destroyDropsListeners, findVars>>

Mount ==
    /\ phase = "mounting"
    /\ phase' = "mounted"
    /\ Commit(TRUE)

Render ==
    /\ RenderPending
    /\ UNCHANGED phase
    /\ Commit(FALSE)

Unmount ==
    /\ Settled
    /\ phase' = "unmounted"
    /\ engines' = IF cleanup2 # 0 THEN Destroy(engines, cleanup2) ELSE engines
    /\ cleanup2' = 0
    /\ hostCalls' = <<>> /\ lastEvent' = NoEvent /\ hostArgs' = <<>>
    /\ logged' = <<>>
    /\ UNCHANGED <<props, reactState, deps1, deps2, deps3, fetches,
                   pendingImports, observed, hostChanges, engineEvents,
                   destroyDropsListeners, findVars>>

\* ------------------------------------------------------------ host actions
HostChange ==
    /\ Settled
    /\ hostChanges < MaxHostChanges
    /\ hostChanges' = hostChanges + 1
    /\ combos' = combos \cup {Inputs'}
    /\ hostCalls' = <<>> /\ lastEvent' = NoEvent /\ hostArgs' = <<>>
    /\ logged' = <<>>
    /\ UNCHANGED <<phase, reactState, effects, engines, fetches,
                   pendingImports, resolutions, lastWrite, lastResolved,
                   lastImport, engineEvents, processModelId,
                   destroyDropsListeners, findVars>>

SetDiagramType ==
    /\ \E k \in DiagramTypes \ {diagramType} : diagramType' = k
    /\ UNCHANGED <<hostCbs, onCallActivityOverlayClick, tasks, diagramXML,
                   url, fileName>>
    /\ HostChange

SetHostCallbacks ==
    /\ \E c \in HostCallbackProps \ {hostCbs} : hostCbs' = c
    /\ UNCHANGED <<diagramType, onCallActivityOverlayClick, tasks, diagramXML,
                   url, fileName>>
    /\ HostChange

SetOnCallActivityOverlayClick ==
    /\ onCallActivityOverlayClick' = ~onCallActivityOverlayClick
    /\ UNCHANGED <<diagramType, hostCbs, tasks, diagramXML, url, fileName>>
    /\ HostChange

SetTasks ==
    /\ \E t \in TaskListIds \ {tasks} : tasks' = t
    /\ UNCHANGED <<diagramType, hostCbs, onCallActivityOverlayClick,
                   diagramXML, url, fileName>>
    /\ HostChange

SetDiagramXML ==
    /\ \E x \in (InlineDocs \cup {NoText}) \ {diagramXML} : diagramXML' = x
    /\ UNCHANGED <<diagramType, hostCbs, onCallActivityOverlayClick, tasks,
                   url, fileName>>
    /\ HostChange

SetUrl ==
    /\ \E u \in (Urls \cup {Absent}) \ {url} : url' = u
    /\ UNCHANGED <<diagramType, hostCbs, onCallActivityOverlayClick, tasks,
                   diagramXML, fileName>>
    /\ HostChange

SetFileName ==
    /\ \E f \in (FileNames \cup {Absent}) \ {fileName} : fileName' = f
    /\ UNCHANGED <<diagramType, hostCbs, onCallActivityOverlayClick, tasks,
                   diagramXML, url>>
    /\ HostChange

\* -------------------------------------------------- fetch continuations
\* the text a completed fetch delivers
Fetched(f) ==
    IF f.src = "url" THEN UrlText(f.key)
    ELSE IF f.src = "file" THEN FileContents(f.pm, f.key)
    ELSE NewDiagramTemplate(f.key)

\* what the fetch's text handler passes to setDiagramXMLString
bpmnTextHandler(text, id) == replaceAll(text, "{{PROCESS_ID}}", "Process_" \o id)
dmnTextHandler(text, id) == replaceAll(text, "{{DECISION_ID}}", "decision_" \o id)

Handled(f, id) ==
    IF f.handler = "bpmnTextHandler" THEN bpmnTextHandler(Fetched(f), id)
    ELSE IF f.handler = "dmnTextHandler" THEN dmnTextHandler(Fetched(f), id)
    ELSE Fetched(f)

\* does the continuation of the fetch call setDiagramXMLString
Writes(f) == f.handler # "none"

FetchOk ==
    /\ phase # "mounting" /\ ~RenderPending
    /\ \E f \in fetches : \E id \in MakeIdTokens :
          /\ (f.src = "blank" \/ id = CHOOSE i \in MakeIdTokens : TRUE)
          /\ fetches' = fetches \ {f}
          /\ lastResolved' = Handled(f, id)
          /\ IF Writes(f) /\ phase = "mounted"
             THEN /\ diagramXMLString' = Handled(f, id)
                  /\ lastWrite' = [id |-> f.id, src |-> f.src,
                                   text |-> Handled(f, id), given |-> f.given]
             ELSE UNCHANGED <<diagramXMLString, lastWrite>>
    /\ hostCalls' = <<>> /\ lastEvent' = NoEvent /\ hostArgs' = <<>>
    /\ logged' = <<>>
    /\ UNCHANGED <<phase, props, diagramModelerState, performingXmlUpdates,
                   effects, engines, pendingImports, resolutions, combos,
                   lastImport, hostChanges, engineEvents,
                   destroyDropsListeners, findVars>>

\* what a failed request logs: fetchDiagramFromURL catches into handleError;
\* a backend call given no failureCallback logs in HttpService
BackendFailureLog == <<"HttpService">>

FailureLog(f) ==
    IF f.src = "file" THEN BackendFailureLog ELSE <<"handleError">>

\* a failed request that is issued again
FetchFailRetrying ==
    /\ phase # "mounting" /\ ~RenderPending
    /\ \E f \in fetches :
          /\ fetches' = (fetches \ {f}) \cup {[f EXCEPT !.id = 99]}
          /\ logged' = FailureLog(f)
    /\ hostCalls' = <<>> /\ lastEvent' = NoEvent /\ hostArgs' = <<>>
    /\ UNCHANGED <<phase, props, reactState, effects, engines, pendingImports,
                   observed, hostChanges, engineEvents, destroyDropsListeners, findVars>>

FetchFail ==
    /\ phase # "mounting" /\ ~RenderPending
    /\ \E f \in fetches :
          /\ fetches' = fetches \ {f}
          /\ logged' = FailureLog(f)
    /\ hostCalls' = <<>> /\ lastEvent' = NoEvent /\ hostArgs' = <<>>
    /\ UNCHANGED <<phase, props, reactState, effects, engines, pendingImports,
                   observed, hostChanges, engineEvents, destroyDropsListeners, findVars>>

\* ------------------------------------------------- import completion
taskSpecsThatCannotBeHighlighted == {<<"Root">>, <<"Start">>, <<"End">>}

\* String.prototype.match on a fixed word, token by token
Matches(id, word) == \E i \in DOMAIN id : id[i] = word

\* the check without its EndJoin pattern
checkTaskIgnoringEndJoin(taskBpmnId) ==
    /\ taskBpmnId \notin taskSpecsThatCannotBeHighlighted
    /\ ~Matches(taskBpmnId, "BoundaryEventParent")
    /\ ~Matches(taskBpmnId, "BoundaryEventJoin")
    /\ ~Matches(taskBpmnId, "BoundaryEventSplit")

checkTaskCanBeHighlighted(taskBpmnId) ==
    /\ taskBpmnId \notin taskSpecsThatCannotBeHighlighted
    /\ ~Matches(taskBpmnId, "EndJoin")
    /\ ~Matches(taskBpmnId, "BoundaryEventParent")
    /\ ~Matches(taskBpmnId, "BoundaryEventJoin")
    /\ ~Matches(taskBpmnId, "BoundaryEventSplit")

\* the class mapping with STARTED left without a class
ClassNameStartedUnmapped(st) ==
    IF st = "COMPLETED" THEN "completed-task-highlight"
    ELSE IF st \in {"READY", "WAITING"} THEN "active-task-highlight"
    ELSE IF st = "CANCELLED" THEN "cancelled-task-highlight"
    ELSE IF st = "ERROR" THEN "errored-task-highlight"
    ELSE ""

ClassName(st) ==
    IF st = "COMPLETED" THEN "completed-task-highlight"
    ELSE IF st \in {"READY", "WAITING", "STARTED"} THEN "active-task-highlight"
    ELSE IF st = "CANCELLED" THEN "cancelled-task-highlight"
    ELSE IF st = "ERROR" THEN "errored-task-highlight"
    ELSE ""

\* the markers highlightBpmnIoElement adds for one task on a canvas
TaskMarkers(eng, task) ==
    IF /\ ClassName(task.state) # ""
       /\ checkTaskCanBeHighlighted(task.bpmn_identifier)
       /\ task.bpmn_process_definition_identifier
             \in DocProcessIdentifiers(eng.doc)
       /\ task.bpmn_identifier \in DocNodes(eng.doc)
    THEN {<<task.bpmn_identifier, ClassName(task.state)>>}
    ELSE {}

\* the overlays added for one task with the test of the read-only view left
\* out
TaskOverlaysInAnyView(eng, c, task) ==
    IF /\ task.typename = "CallActivity"
       /\ task.state \notin {"FUTURE", "LIKELY", "MAYBE"}
       /\ c.onCallActivityOverlayClick
       /\ task.bpmn_process_definition_identifier
             \in DocProcessIdentifiers(eng.doc)
       /\ task.bpmn_identifier \in DocNodes(eng.doc)
    THEN {task.bpmn_identifier}
    ELSE {}

\* the overlays addOverlayOnCallActivity adds for one task
TaskOverlays(eng, c, task) ==
    IF /\ task.typename = "CallActivity"
       /\ task.state \notin {"FUTURE", "LIKELY", "MAYBE"}
       /\ c.onCallActivityOverlayClick
       /\ c.diagramType = "readonly"
       /\ task.bpmn_process_definition_identifier
             \in DocProcessIdentifiers(eng.doc)
       /\ task.bpmn_identifier \in DocNodes(eng.doc)
    THEN {task.bpmn_identifier}
    ELSE {}

\* canvas.zoom(FitViewport, 'auto')
Fit(eng) == [eng EXCEPT !.fits = 1, !.log = Append(@, "fit")]

\* does addOverlayOnCallActivity reach overlays.add for the task
ReachesOverlayAdd(eng, c, task) ==
    /\ task.typename = "CallActivity"
    /\ task.state \notin {"FUTURE", "LIKELY", "MAYBE"}
    /\ c.onCallActivityOverlayClick
    /\ c.diagramType = "readonly"
    /\ task.bpmn_process_definition_identifier
          \in DocProcessIdentifiers(eng.doc)

\* tasks.forEach of onImportDone.  canvas.addMarker on a node that is not in
\* the diagram raises the message the catch compares with, and is swallowed.
\* What overlays.add raises for such a node is the engine's: swallowMissing
\* tells whether its message is that same one; if it is not, the catch
\* throws it again, which ends the forEach and the handler.
RECURSIVE HighlightPass(_, _, _, _)
HighlightPass(eng, c, ts, swallowMissing) ==
    IF ts = <<>> \/ eng.raised THEN eng
    ELSE LET task == Head(ts)
             ms == TaskMarkers(eng, task)
             marked == [eng EXCEPT
                          !.markers = @ \cup ms,
                          !.log = IF ms # {} THEN Append(@, "marker") ELSE @]
             os == TaskOverlays(marked, c, task)
             missing == task.bpmn_identifier \notin DocNodes(eng.doc)
             after ==
                IF ReachesOverlayAdd(marked, c, task) /\ missing
                   /\ ~swallowMissing
                THEN [marked EXCEPT !.raised = TRUE]
                ELSE [marked EXCEPT
                        !.overlays = @ \cup os,
                        !.log = IF os # {} THEN Append(@, "overlay") ELSE @]
         IN HighlightPass(after, c, Tail(ts), swallowMissing)

\* onImportDone with the viewport fit moved behind the highlight pass
onImportDoneFitLast(eng, c, ok, swallowMissing) ==
    IF ~ok THEN eng
    ELSE IF c.tasks # 0
         THEN Fit(HighlightPass(eng, c, TaskList(c.tasks), swallowMissing))
         ELSE Fit(eng)

\* one run of onImportDone, for the closure c bound on the engine
onImportDone(eng, c, ok, swallowMissing) ==
    IF ~ok THEN eng
    ELSE IF c.tasks # 0
         THEN HighlightPass(Fit(eng), c, TaskList(c.tasks), swallowMissing)
         ELSE Fit(eng)

\* the handlers bound for import.done run in the order they were bound; an
\* error thrown by one of them ends the emit
RECURSIVE RunHandlers(_, _, _, _)
RunHandlers(eng, hs, ok, swallowMissing) ==
    IF hs = <<>> \/ eng.raised THEN eng
    ELSE RunHandlers(onImportDone(eng, Head(hs), ok, swallowMissing),
                     Tail(hs), ok, swallowMissing)

\* the engine reports an error for a document it cannot parse
WellFormed(text) == text # FileContents("pm", "b.bpmn")

\* event.references at import.parse.complete: the references the parser
\* could not resolve (none are reported with a parse error)
Ref(property, id, element) ==
    [property |-> property, id |-> id, element |-> element]

DocReferences(text) ==
    IF WellFormed(text)
    THEN {Ref("bpmn:loopDataInputRef", "in_items", "Task_1"),
          Ref("bpmn:loopDataOutputRef", "out_items", "Task_1"),
          Ref("bpmn:sourceRef", "Gateway_x", "Flow_1")}
    ELSE {}

\* the filter with loopDataOutputRef left out
LoopDataInputRefsOnly(references) ==
    {r \in references : r.property = "bpmn:loopDataInputRef"}

\* event.references.filter(...) of fixUnresolvedReferences
LoopDataRefs(references) ==
    {r \in references : \/ r.property = "bpmn:loopDataInputRef"
                        \/ r.property = "bpmn:loopDataOutputRef"}

\* the import.parse.complete handlers bound on the handle: each creates one
\* element per filtered reference and sets it on the owning element
ParseComplete(eng) ==
    LET refs == LoopDataRefs(DocReferences(eng.doc))
    IN IF eng.parseHandlers = 0 THEN eng
       ELSE [eng EXCEPT
               !.itemDefs = {[element |-> r.element, property |-> r.property,
                              id |-> r.id, name |-> TRUE] : r \in refs},
               !.created = eng.parseHandlers * Cardinality(refs)]

\* the engine emits import.parse.complete and then import.done: every
\* handler bound on the handle runs.  A destroyed engine has no canvas left
\* to show markers on.
ImportDone ==
    /\ ~RenderPending
    /\ \E p \in pendingImports : \E swallowMissing \in BOOLEAN :
          /\ pendingImports' = pendingImports \ {p}
          /\ engines' =
                IF Live(engines, p.h)
                THEN [engines EXCEPT
                        ![p.h] = RunHandlers(
                                    [ParseComplete(@) EXCEPT
                                        !.log = Append(@, "done")],
                                    @.doneHandlers, WellFormed(p.text),
                                    swallowMissing)]
                ELSE engines
          /\ logged' =
                IF Live(engines, p.h) /\ ~WellFormed(p.text)
                THEN [i \in DOMAIN engines[p.h].doneHandlers |-> "handleError"]
                ELSE <<>>
    /\ hostCalls' = <<>> /\ lastEvent' = NoEvent /\ hostArgs' = <<>>
    /\ UNCHANGED <<phase, props, reactState, effects, fetches, observed,
                   hostChanges, engineEvents, destroyDropsListeners, findVars>>

\* the click listener without its setDiagramModelerState(null)
DrillDownClickKeepingHandle ==
    /\ Settled
    /\ \E h \in {l \in DOMAIN engines : InDom(engines, l)} :
       \E t \in engines[h].overlays :
          /\ hostCalls' = <<"onCallActivityOverlayClick">>
          /\ lastEvent' = [name |-> "click", h |-> h, arg |-> t,
                            error |-> FALSE]
          /\ hostArgs' = <<t>>
          /\ logged' = <<>>
          /\ diagramXMLString' = NoText
    /\ UNCHANGED <<phase, props, diagramModelerState, performingXmlUpdates,
                   effects, engines, fetches, pendingImports, observed,
                   hostChanges, engineEvents, destroyDropsListeners, findVars>>

\* the click listener of a drill-down overlay button
DrillDownClick ==
    /\ Settled
    /\ \E h \in {l \in DOMAIN engines : InDom(engines, l)} :
       \E t \in engines[h].overlays :
          /\ hostCalls' = <<"onCallActivityOverlayClick">>
          /\ lastEvent' = [name |-> "click", h |-> h, arg |-> t,
                            error |-> FALSE]
          /\ hostArgs' = <<t>>
          /\ logged' = <<>>
          /\ diagramXMLString' = NoText
          /\ diagramModelerState' = 0
    /\ UNCHANGED <<phase, props, performingXmlUpdates, effects, engines,
                   fetches, pendingImports, observed, hostChanges,
                   engineEvents, destroyDropsListeners, findVars>>

\* ------------------------------------------------------ the event bridge
Sub(ev, cb, guard) == [event |-> ev, callback |-> cb, guard |-> guard]

\* the diagramModeler.on(...) subscriptions, in the order they are made
Subscriptions ==
    <<Sub("spiff.script.edit", "onLaunchScriptEditor", TRUE),
      Sub("spiff.markdown.edit", "onLaunchMarkdownEditor", TRUE),
      Sub("spiff.callactivity.edit", "onLaunchBpmnEditor", FALSE),
      Sub("spiff.file.edit", "onLaunchJsonSchemaEditor", FALSE),
      Sub("spiff.dmn.edit", "onLaunchDmnEditor", FALSE),
      Sub("element.click", "onElementClick", FALSE),
      Sub("elements.changed", "onElementsChanged", FALSE),
      Sub("spiff.service_tasks.requested", "onServiceTasksRequested", FALSE),
      Sub("spiff.data_stores.requested", "onDataStoresRequested", FALSE),
      Sub("spiff.json_schema_files.requested", "onJsonSchemaFilesRequested",
          FALSE),
      Sub("spiff.dmn_files.requested", "onDmnFilesRequested", FALSE),
      Sub("spiff.messages.requested", "onMessagesRequested", FALSE),
      Sub("spiff.json_schema_files.requested", "onServiceTasksRequested",
          FALSE),
      Sub("spiff.callactivity.search", "onSearchProcessModels", FALSE),
      Sub("spiff.message.edit", "onLaunchMessageEditor", FALSE)>>

EngineEventNames == {Subscriptions[i].event : i \in DOMAIN Subscriptions}

\* the subscriptions that forward an event to a callback the host supplied
RECURSIVE Forwarding(_, _, _)
Forwarding(subs, ev, supplied) ==
    IF subs = <<>> THEN <<>>
    ELSE (IF Head(subs).event = ev /\ Head(subs).callback \in supplied
          THEN <<Head(subs)>> ELSE <<>>)
         \o Forwarding(Tail(subs), ev, supplied)

\* the handlers that read the error field of their event and log it
ErrorReadingEvents ==
    {"spiff.script.edit", "spiff.markdown.edit", "spiff.file.edit"}

\* the element and value (script) payload of an event
EventElement == "Activity_1"
EventValue == "value_1"

\* the arguments with the payload left out for an event that has an error
EventArgsDroppedOnError(ev, err) ==
    IF ev \in ErrorReadingEvents /\ ~err
    THEN <<EventElement, EventValue>> ELSE <<>>

\* the payload arguments a handler passes to the host callback, whether or
\* not the event has an error field (other arguments are not followed)
EventArgs(ev, err) ==
    IF ev \in ErrorReadingEvents
    THEN <<EventElement, EventValue>> ELSE <<>>

\* an event of the engine in the page, raised by a user working on a diagram
\* whose import has completed
EngineEvent ==
    /\ Settled
    /\ engineEvents < MaxEngineEvents
    /\ engineEvents' = engineEvents + 1
    /\ \E h \in {l \in DOMAIN engines :
                    /\ InDom(engines, l)
                    /\ engines[l].doc # NoText
                    /\ \A p \in pendingImports : p.h # l} :
       \E ev \in EngineEventNames :
       \E err \in (IF ev \in ErrorReadingEvents THEN BOOLEAN ELSE {FALSE}) :
          LET fw == Forwarding(Subscriptions, ev, engines[h].cbs)
          IN /\ hostCalls' = [i \in DOMAIN fw |-> fw[i].callback]
             /\ hostArgs' = [i \in DOMAIN fw |-> EventArgs(ev, err)]
             /\ logged' = IF err THEN <<"console.error">> ELSE <<>>
             /\ lastEvent' = [name |-> ev, h |-> h, arg |-> <<>>,
                               error |-> err]
             /\ performingXmlUpdates' =
                   (performingXmlUpdates \/ \E i \in DOMAIN fw : fw[i].guard)
    /\ UNCHANGED <<phase, props, diagramXMLString, diagramModelerState,
                   effects, engines, fetches, pendingImports, observed,
                   hostChanges, destroyDropsListeners, findVars>>

\* =================================================================
\* ProcessInstanceFindById (spiffworkflow-frontend/src/routes)
\* =================================================================
\* Each event is followed by a render before the next one is handled, so a
\* handler reads the state the previous handler left.

\* characters typed into the input, and the texts of the input
Digits == {"1"}
Chars == Digits \cup {"a"}
RECURSIVE TextsOfLen(_)
TextsOfLen(n) ==
    IF n = 0 THEN {<<>>}
    ELSE {Append(t, c) : t \in TextsOfLen(n - 1), c \in Chars}
IdTexts == UNION {TextsOfLen(n) : n \in 0..MaxIdLen}

\* helpers.isInteger: the text is one or more digits
isInteger(str) ==
    /\ str # <<>>
    /\ \A i \in DOMAIN str : str[i] \in Digits

\* helpers.modifyProcessIdentifierForPathParam: '/' becomes ':'
modifyProcessIdentifierForPathParam(identifier) ==
    [i \in DOMAIN identifier |->
        IF identifier[i] = "/" THEN ":" ELSE identifier[i]]

\* the path of the backend lookup for an id text
FindPath(idText) == <<"/process-instances/find-by-id/">> \o idText

\* results the backend may return for a lookup
UriTypes == {"for-me", "other"}
ProcessModelIdentifiers == {<<"group", "/", "model">>}

NoPath == <<>>
NoHandled == [op |-> "", value |-> <<>>]
NoChange == [made |-> FALSE, value |-> <<>>, accepted |-> FALSE,
             cleared |-> FALSE]

\* the state of the page before any event
FindIdle ==
    /\ processInstanceId = <<>>
    /\ processInstanceIdValid = TRUE
    /\ calls = {}
    /\ navigated = NoPath
    /\ lastHandled = NoHandled
    /\ lastChange = NoChange
    /\ invalidBySubmit = FALSE


\* ------------------------------------------------------------------ spec
Init ==
    /\ phase = "mounting"
    /\ diagramType \in DiagramTypes
    /\ hostCbs = [supplied |-> BridgeCallbacks, gen |-> 0]
    /\ onCallActivityOverlayClick \in BOOLEAN
    /\ tasks = 1
    /\ diagramXML \in InlineDocs \cup {NoText}
    /\ url \in Urls \cup {Absent}
    /\ fileName \in FileNames \cup {Absent}
    /\ processModelId \in ModelIds
    /\ diagramXMLString = NoText
    /\ diagramModelerState = 0
    /\ performingXmlUpdates = FALSE
    /\ deps1 = E1Deps /\ deps2 = E2Deps /\ deps3 = E3Deps
    /\ cleanup2 = 0
    /\ engines = <<>>
    /\ fetches = {}
    /\ pendingImports = {}
    /\ resolutions = 0
    /\ combos = {Inputs}
    /\ lastWrite = [id |-> 0, src |-> "", text |-> NoText, given |-> Inputs]
    /\ lastResolved = NoText
    /\ lastImport = [h |-> 0, text |-> NoText, live |-> TRUE, kindOk |-> TRUE,
                     latest |-> TRUE]
    /\ hostCalls = <<>>
    /\ lastEvent = NoEvent
    /\ hostArgs = <<>>
    /\ logged = <<>>
    /\ hostChanges = 0
    /\ engineEvents = 0
    /\ destroyDropsListeners \in BOOLEAN
    /\ FindIdle

Next ==
    \/ Mount
    \/ Render
    \/ Unmount
    \/ SetDiagramType
    \/ SetHostCallbacks
    \/ SetOnCallActivityOverlayClick
    \/ SetTasks
    \/ SetDiagramXML
    \/ SetUrl
    \/ SetFileName
    \/ FetchOk
    \/ FetchFail
    \/ ImportDone
    \/ DrillDownClick
    \/ EngineEvent

Spec == Init /\ [][Next]_vars

\* the test of a submission with the validity flag left out
LookupGuardIgnoringValid(idText, valid) == idText # <<>>

\* the test under which a submission calls the backend
LookupGuard(idText, valid) == idText # <<>> /\ valid

handleFormSubmission ==
    /\ navigated = NoPath
    /\ processInstanceIdValid' =
          IF processInstanceId = <<>> THEN FALSE ELSE processInstanceIdValid
    /\ calls' = IF LookupGuard(processInstanceId, processInstanceIdValid)
                THEN calls \cup {FindPath(processInstanceId)}
                ELSE calls
    /\ invalidBySubmit' = (processInstanceId = <<>> \/ invalidBySubmit)
    /\ lastHandled' = [op |-> "submit", value |-> processInstanceId]
    /\ UNCHANGED <<processInstanceId, navigated, lastChange, editorVars>>

handleProcessInstanceIdChange ==
    /\ navigated = NoPath
    /\ \E value \in IdTexts :
          /\ processInstanceIdValid' = isInteger(value)
          /\ processInstanceId' = value
          /\ invalidBySubmit' = (invalidBySubmit /\ ~isInteger(value))
          /\ lastHandled' = [op |-> "change", value |-> value]
          /\ lastChange' =
                [made |-> TRUE, value |-> value,
                 accepted |-> isInteger(value),
                 cleared |-> invalidBySubmit /\ isInteger(value)]
    /\ UNCHANGED <<calls, navigated, editorVars>>

\* successCallback of a lookup
handleProcessInstanceNavigation ==
    /\ \E c \in calls : \E uri_type \in UriTypes :
       \E process_model_identifier \in ProcessModelIdentifiers :
          /\ calls' = calls \ {c}
          /\ navigated' =
                <<"/admin/process-instances/">>
                \o (IF uri_type = "for-me" THEN <<"for-me/">> ELSE <<>>)
                \o modifyProcessIdentifierForPathParam(
                       process_model_identifier)
                \o <<"/">> \o Tail(c)
    /\ UNCHANGED <<processInstanceId, processInstanceIdValid, lastHandled,
                   lastChange, invalidBySubmit, editorVars>>

\* a lookup that fails: no failureCallback is given, nothing changes
LookupFail ==
    /\ \E c \in calls : calls' = calls \ {c}
    /\ UNCHANGED <<processInstanceId, processInstanceIdValid, navigated,
                   lastHandled, lastChange, invalidBySubmit, editorVars>>

\* the page alone: the diagram editor is not part of it
FindInit ==
    /\ Init
    /\ diagramType = "bpmn"
    /\ onCallActivityOverlayClick
    /\ diagramXML = NoText
    /\ url = Absent
    /\ fileName = Absent
    /\ destroyDropsListeners

FindNext ==
    \/ handleFormSubmission
    \/ handleProcessInstanceIdChange
    \/ handleProcessInstanceNavigation
    \/ LookupFail

FindSpec == FindInit /\ [][FindNext]_vars

\* ------------------------------------------------------------------ types
TypeOK ==
    /\ phase \in {"mounting", "mounted", "unmounted"}
    /\ diagramModelerState \in 0..Len(engines)
    /\ cleanup2 \in 0..Len(engines)

\* =================================================================
\* Properties
\* =================================================================

\* C1: at every moment at most one engine handle is live (constructed and
\* not yet destroyed).
CE_C1_AtMostOneLiveHandle == Cardinality(LiveHandles) <= 1

\* C2: after initialization exactly one handle exists; no handle is ever
\* destroyed twice; once the view has unmounted every handle that was created
\* has been destroyed exactly once.
CE_C2_DestroyedExactlyOnce ==
    /\ (phase = "mounted" /\ hostChanges = 0 /\ diagramModelerState # 0
          => Len(engines) = 1)
    /\ \A h \in DOMAIN engines : engines[h].destroys <= 1
    /\ phase = "unmounted" => \A h \in DOMAIN engines : engines[h].destroys = 1

\* C3: every call of the engine's import operation is made on a handle that
\* is live and whose kind is the current diagram kind.
CE_C3_ImportOnLiveMatchingHandle ==
    lastImport.h # 0 => lastImport.live /\ lastImport.kindOk

\* C4: while the view stays mounted and the diagram kind and the host event
\* callbacks are unchanged, a commit that loads a new non-empty document or a
\* new execution-state list destroys no handle and keeps the handle in place.
CE_C4_HandlePersistsAcrossLoads ==
    [][(/\ phase = "mounted" /\ phase' = "mounted"
        /\ deps1 = E1Deps
        /\ deps2[1] = diagramType
        /\ deps2[3] = diagramModelerState
        /\ deps2[4] = onCallActivityOverlayClick
        /\ diagramModelerState # 0
        /\ diagramXMLString # NoText /\ diagramXMLString' # NoText)
       => /\ diagramModelerState' = diagramModelerState
          /\ \A h \in DOMAIN engines :
                engines'[h].destroys = engines[h].destroys]_vars

\* C5: each resolution uses the one source that is highest in the order
\* inline > URL > remote file > generated blank among those present in its
\* inputs; no fetch is started when an inline document is present, and the
\* text a resolution writes to document state is the text of that source.
SourceRank(src) ==
    IF src = "inline" THEN 1 ELSE IF src = "url" THEN 2
    ELSE IF src = "file" THEN 3 ELSE 4

PresentSources(g) ==
    {"blank"} \cup (IF g.inline # NoText THEN {"inline"} ELSE {})
              \cup (IF g.url # Absent THEN {"url"} ELSE {})
              \cup (IF g.file # Absent THEN {"file"} ELSE {})

HighestPresent(g) ==
    CHOOSE src \in PresentSources(g) :
        \A other \in PresentSources(g) : SourceRank(src) <= SourceRank(other)

SourceTexts(src, g) ==
    IF src = "inline" THEN {g.inline}
    ELSE IF src = "url" THEN {UrlText(g.url)}
    ELSE IF src = "file" THEN {FileContents(pm, g.file) : pm \in ModelIds}
    ELSE IF g.type = "dmn"
         THEN {<<"<decision id=", "decision_" \o id, "/>">> : id \in MakeIdTokens}
         ELSE {<<"<process id=", "Process_" \o id, "/>">> : id \in MakeIdTokens}

Thm_C5_SourcePrecedence ==
    /\ \A f \in fetches :
          /\ f.src = HighestPresent(f.given)
          /\ f.given.inline = NoText
    /\ lastWrite.id # 0 =>
          /\ lastWrite.src = HighestPresent(lastWrite.given)
          /\ lastWrite.text \in SourceTexts(lastWrite.src, lastWrite.given)

\* an inline document given together with a URL has been resolved: the
\* document state holds the inline text and no fetch is in flight
W_C5_InlineBeatsUrl ==
    /\ lastWrite.id # 0
    /\ lastWrite.given.inline # NoText
    /\ lastWrite.given.url # Absent
    /\ diagramXMLString = lastWrite.given.inline
    /\ fetches = {}

\* C6: with no inline document and a URL given, a successful fetch of the
\* URL leaves the fetched text in document state.
CE_C6_UrlTextWritten ==
    (/\ phase = "mounted"
     /\ diagramModelerState # 0
     /\ lastResolved \in {UrlText(u) : u \in Urls})
    => diagramXMLString = lastResolved

\* C7: the engine is never handed a document other than the most recently
\* resolved one, and once a load cycle has ended the document the engine
\* shows is the text last resolved.
CE_C7_EngineShowsLastResolved ==
    /\ lastImport.h # 0 => lastImport.latest
    /\ (Quiescent /\ diagramModelerState # 0 /\ lastResolved # NoText)
          => /\ Live(engines, diagramModelerState)
             /\ engines[diagramModelerState].doc = lastResolved

\* C8 (as claimed): the number of resolutions equals the number of distinct
\* input combinations presented.
CE_C8_OncePerCombination ==
    (Quiescent /\ diagramModelerState # 0 /\ ~performingXmlUpdates)
    => resolutions = Cardinality(combos)

\* C8 (amended): the resolver resolves exactly once in every commit in which
\* one of (engine handle, diagram kind, inline document, file name, guard,
\* model identifier, URL) differs from its value at the resolver's previous
\* run while a handle exists and the guard is clear, and in no other step.
ResolverInputs ==
    <<diagramModelerState, diagramType, diagramXML, fileName,
      performingXmlUpdates, processModelId, url>>

ResolverTriggered ==
    /\ phase = "mounted"
    /\ deps3 # ResolverInputs
    /\ diagramModelerState # 0
    /\ ~performingXmlUpdates

Thm_C8_OncePerDependencyChange ==
    [][IF ResolverTriggered THEN resolutions' = resolutions + 1
       ELSE resolutions' = resolutions]_vars

\* the handle was re-created for an unchanged input combination, and that
\* combination has been resolved a second time
W_C8_ResolvedAgainForNewHandle ==
    /\ Len(engines) = 2
    /\ Cardinality(combos) = 1
    /\ resolutions = 2

\* C9: from the moment the guard is set no fetch is started and the resolver
\* never writes document state.
CE_C9_ResolverSuppressedWhileGuarded ==
    [][performingXmlUpdates
         => /\ fetches' \subseteq fetches
            /\ lastWrite' = lastWrite]_vars

\* C10: forwarding any sub-editor launch request to the host sets the guard.
LaunchCallbacks ==
    {"onLaunchScriptEditor", "onLaunchMarkdownEditor", "onLaunchBpmnEditor",
     "onLaunchJsonSchemaEditor", "onLaunchDmnEditor", "onLaunchMessageEditor"}

CE_C10_LaunchSetsGuard ==
    (\E i \in DOMAIN hostCalls : hostCalls[i] \in LaunchCallbacks)
    => performingXmlUpdates

\* C11: the guard, once set by a sub-editor launch, is cleared when the next
\* document load cycle begins: the commit that hands a document to the
\* engine's import operation leaves the guard clear.
ImportTriggered ==
    /\ phase = "mounted"
    /\ deps2 # E2Deps
    /\ diagramXMLString # NoText
    /\ diagramModelerState # 0

CE_C11_GuardClearedAtNextLoad ==
    [][(performingXmlUpdates /\ ImportTriggered)
         => ~performingXmlUpdates']_vars

\* the host callback that corresponds to an engine event name
OwnCallback(ev) ==
    CASE ev = "spiff.script.edit" -> "onLaunchScriptEditor"
      [] ev = "spiff.markdown.edit" -> "onLaunchMarkdownEditor"
      [] ev = "spiff.callactivity.edit" -> "onLaunchBpmnEditor"
      [] ev = "spiff.file.edit" -> "onLaunchJsonSchemaEditor"
      [] ev = "spiff.dmn.edit" -> "onLaunchDmnEditor"
      [] ev = "element.click" -> "onElementClick"
      [] ev = "elements.changed" -> "onElementsChanged"
      [] ev = "spiff.service_tasks.requested" -> "onServiceTasksRequested"
      [] ev = "spiff.data_stores.requested" -> "onDataStoresRequested"
      [] ev = "spiff.json_schema_files.requested" -> "onJsonSchemaFilesRequested"
      [] ev = "spiff.dmn_files.requested" -> "onDmnFilesRequested"
      [] ev = "spiff.messages.requested" -> "onMessagesRequested"
      [] ev = "spiff.callactivity.search" -> "onSearchProcessModels"
      [] ev = "spiff.message.edit" -> "onLaunchMessageEditor"
      [] OTHER -> ""

\* C12: one occurrence of an engine event causes at most one host callback
\* invocation, and only of the callback that corresponds to that event.
CE_C12_OneCallbackPerEvent ==
    lastEvent.name \in EngineEventNames
    => /\ Len(hostCalls) <= 1
       /\ \A i \in DOMAIN hostCalls : hostCalls[i] = OwnCallback(lastEvent.name)

\* C13: an engine event whose callback the host did not supply is dropped: no
\* host callback is invoked and the component state (the guard included) is
\* left as it was.
CE_C13_DroppedWithoutCallback ==
    [][(/\ engineEvents' # engineEvents
        /\ OwnCallback(lastEvent'.name) \notin engines[lastEvent'.h].cbs)
       => /\ hostCalls' = <<>>
          /\ UNCHANGED <<phase, props, reactState, effects, engines, fetches,
                         pendingImports>>]_vars

\* a handle whose load cycle has reached Imported: it is live and the
\* import of its document has completed without error
Imported(h) ==
    /\ Live(engines, h)
    /\ engines[h].doc # NoText
    /\ WellFormed(engines[h].doc)
    /\ engines[h].doneHandlers # <<>>
    /\ \A p \in pendingImports : p.h # h

\* a handle whose load cycle has reached Highlighted: the highlight pass
\* that followed the import has run to its end
Highlighted(h) == Imported(h) /\ ~engines[h].raised

\* the execution state that was given to the import of a handle
GivenTasks(h) ==
    TaskList(engines[h].doneHandlers[Len(engines[h].doneHandlers)].tasks)

StatusMarker(st) ==
    CASE st = "COMPLETED" -> "completed-task-highlight"
      [] st \in {"READY", "WAITING", "STARTED"} -> "active-task-highlight"
      [] st = "CANCELLED" -> "cancelled-task-highlight"
      [] st = "ERROR" -> "errored-task-highlight"
      [] OTHER -> ""

StructuralWords ==
    {"EndJoin", "BoundaryEventParent", "BoundaryEventJoin",
     "BoundaryEventSplit"}

Highlightable(id) ==
    /\ id \notin {<<"Root">>, <<"Start">>, <<"End">>}
    /\ \A i \in DOMAIN id : id[i] \notin StructuralWords

ExpectedMarkers(ts, text) ==
    {<<ts[i].bpmn_identifier, StatusMarker(ts[i].state)>> :
        i \in {j \in DOMAIN ts :
                 /\ ts[j].bpmn_identifier \in DocNodes(text)
                 /\ Highlightable(ts[j].bpmn_identifier)
                 /\ ts[j].bpmn_process_definition_identifier
                       \in DocProcessIdentifiers(text)
                 /\ StatusMarker(ts[j].state) # ""}}

Thm_C15_StructuralNeverMarked ==
    \A h \in DOMAIN engines : \A m \in engines[h].markers :
        /\ m[1] # <<"Root">> /\ m[1] # <<"Start">> /\ m[1] # <<"End">>
        /\ \A i \in DOMAIN m[1] :
              /\ m[1][i] # "EndJoin"
              /\ m[1][i] # "BoundaryEventParent"
              /\ m[1][i] # "BoundaryEventJoin"
              /\ m[1][i] # "BoundaryEventSplit"

\* an import has completed and applied markers for an execution state that
\* holds a task EndJoin_3 with a status that maps to a marker, for a node of
\* the diagram
W_C15_EndJoinTaskPresent ==
    \E h \in DOMAIN engines :
        /\ Highlighted(h)
        /\ engines[h].markers # {}
        /\ <<"EndJoin", "_3">> \in DocNodes(engines[h].doc)
        /\ \E i \in DOMAIN GivenTasks(h) :
              /\ GivenTasks(h)[i].bpmn_identifier = <<"EndJoin", "_3">>
              /\ StatusMarker(GivenTasks(h)[i].state) # ""

\* C16: a click on a drill-down overlay invokes onCallActivityOverlayClick
\* exactly once with the overlay's task and leaves document state empty and
\* the handle state null; the commit that follows destroys the handle that
\* was live before the click, and document and handle state stay cleared.
Thm_C16_DrillDownClears ==
    [][/\ (lastEvent'.name = "click" /\ lastEvent.name # "click")
          => /\ hostCalls' = <<"onCallActivityOverlayClick">>
             /\ Live(engines, lastEvent'.h)
             /\ lastEvent'.arg \in engines[lastEvent'.h].overlays
             /\ diagramXMLString' = NoText
             /\ diagramModelerState' = 0
       /\ lastEvent.name = "click"
          => /\ ~Live(engines', lastEvent.h)
             /\ diagramXMLString' = NoText
             /\ diagramModelerState' = 0]_vars

\* the commit after a drill-down click has run: no document, no handle in
\* state, and the engine that showed the overlay destroyed
W_C16_ClearedAfterDrillDown ==
    /\ Settled
    /\ diagramXMLString = NoText
    /\ diagramModelerState = 0
    /\ engines # <<>>
    /\ engines[Len(engines)].destroys = 1

\* C17: markers and overlays are on a diagram only after the import of its
\* load cycle has completed without error, and a load cycle whose import
\* completed with an error has applied no viewport fit, no marker and no
\* overlay.
CE_C17_NothingAppliedOnError ==
    \A h \in DOMAIN engines :
        /\ (engines[h].markers # {} \/ engines[h].overlays # {})
              => Imported(h)
        /\ (/\ Live(engines, h)
            /\ engines[h].doc # NoText
            /\ ~WellFormed(engines[h].doc)
            /\ \A p \in pendingImports : p.h # h)
           => /\ engines[h].fits = 0
              /\ engines[h].markers = {}
              /\ engines[h].overlays = {}

\* C18: once the commits have settled with a non-empty document state and a
\* handle in state, that text has been handed to the import operation of
\* that handle, whichever of the two became available first; and no import
\* is ever attempted on a null handle.
Thm_C18_ImportedOnceBothHold ==
    /\ (Settled /\ diagramXMLString # NoText /\ diagramModelerState # 0)
          => /\ engines[diagramModelerState].doc = diagramXMLString
             /\ engines[diagramModelerState].doneHandlers # <<>>
    /\ \A p \in pendingImports : p.h \in DOMAIN engines
    /\ lastImport.h = 0 => \A h \in DOMAIN engines : engines[h].doc = NoText

\* the document was available first (it had been imported on the first
\* handle) and has been handed to the second handle once that one was ready
W_C18_DocumentBeforeHandle ==
    /\ Settled
    /\ Len(engines) = 2
    /\ diagramModelerState = 2
    /\ diagramXMLString # NoText
    /\ engines[1].doc = diagramXMLString
    /\ engines[2].doc = diagramXMLString

\* what one highlight pass derives from the execution state, the view and
\* the imported document that are current
CurrentClosure ==
    [tasks |-> tasks, diagramType |-> diagramType,
     onCallActivityOverlayClick |-> onCallActivityOverlayClick]

DerivedMarkers(h) ==
    UNION {TaskMarkers(engines[h], TaskList(tasks)[i]) :
           i \in DOMAIN TaskList(tasks)}

DerivedOverlays(h) ==
    UNION {TaskOverlays(engines[h], CurrentClosure, TaskList(tasks)[i]) :
           i \in DOMAIN TaskList(tasks)}

\* C19: once a load cycle has reached Highlighted, the markers and overlays
\* on the diagram are exactly those derived from the current execution state
\* and the imported document, the document is the current one, and no
\* completion handler of an earlier cycle is bound on that handle.
Thm_C19_NoStaleAnnotations ==
    Settled
    => \A h \in DOMAIN engines :
          Highlighted(h)
          => /\ engines[h].doc = diagramXMLString
             /\ engines[h].markers = DerivedMarkers(h)
             /\ engines[h].overlays = DerivedOverlays(h)
             /\ Len(engines[h].doneHandlers) = 1

\* a second load cycle has reached Highlighted with markers on the diagram,
\* after an earlier cycle had imported a document on the previous handle
W_C19_SecondCycleHighlighted ==
    /\ Settled
    /\ Len(engines) = 2
    /\ engines[1].doc # NoText
    /\ Highlighted(2)
    /\ engines[2].markers # {}

\* C20: after the host has changed the execution state (document and view
\* unchanged) and everything in flight has completed, the diagram shows the
\* markers of the new execution state on a live handle.
CE_C20_NewTasksShown ==
    (/\ Quiescent
     /\ tasks # 1
     /\ diagramModelerState # 0
     /\ diagramXMLString # NoText
     /\ WellFormed(diagramXMLString))
    => /\ Live(engines, diagramModelerState)
       /\ engines[diagramModelerState].markers
             = ExpectedMarkers(TaskList(tasks), diagramXMLString)

\* the kind of load the import of a handle was made for
GivenType(h) ==
    engines[h].doneHandlers[Len(engines[h].doneHandlers)].diagramType

LoopProperties == {"bpmn:loopDataInputRef", "bpmn:loopDataOutputRef"}

\* C21: once the import of a flowchart (bpmn or readonly) load has completed,
\* every loopDataInputRef / loopDataOutputRef reference the parser reported
\* as unresolved has exactly one item-aware element with the reference's
\* identifier set on its owning element, and no other reference has one;
\* for a decision-table (dmn) load no compensation handler is bound and no
\* element is created.
Thm_C21_LoopReferencesCompensated ==
    \A h \in DOMAIN engines :
        Imported(h)
        => IF GivenType(h) # "dmn"
           THEN /\ {<<d.element, d.property, d.id>> : d \in engines[h].itemDefs}
                      = {<<r.element, r.property, r.id>> :
                           r \in {x \in DocReferences(engines[h].doc) :
                                    x.property \in LoopProperties}}
                /\ engines[h].created = Cardinality(engines[h].itemDefs)
           ELSE /\ engines[h].parseHandlers = 0
                /\ engines[h].itemDefs = {}
                /\ engines[h].created = 0

\* a flowchart import has completed and re-attached one input and one
\* output element
W_C21_InputAndOutputReattached ==
    \E h \in DOMAIN engines :
        /\ Imported(h)
        /\ GivenType(h) = "bpmn"
        /\ engines[h].created = 2
        /\ \E d \in engines[h].itemDefs : d.property = "bpmn:loopDataInputRef"
        /\ \E d \in engines[h].itemDefs : d.property = "bpmn:loopDataOutputRef"

\* a step in which a request for a document fails
FetchFailed ==
    /\ fetches' # fetches
    /\ logged' # <<>>

\* C22: when a request for a document (URL, template or remote file) fails,
\* the failure is logged where the request was made, the request is not
\* issued again and no other is started, the document state and the engines
\* stay as they were, no import is started and the host is not called.
Thm_C22_FailedFetchLeavesBlank ==
    [][FetchFailed
       => /\ \E f \in fetches :
                /\ fetches' = fetches \ {f}
                /\ logged' = IF f.src = "file" THEN <<"HttpService">>
                                               ELSE <<"handleError">>
          /\ hostCalls' = <<>>
          /\ UNCHANGED <<phase, props, reactState, effects, engines,
                         pendingImports, lastImport, lastWrite>>]_vars

\* the only request of a mounted view has failed: nothing is in flight and
\* the diagram is blank
W_C22_BlankAfterFailure ==
    /\ phase = "mounted"
    /\ logged = <<"HttpService">>
    /\ fetches = {}
    /\ pendingImports = {}
    /\ diagramXMLString = NoText
    /\ fileName # Absent
    /\ \A h \in DOMAIN engines : engines[h].doc = NoText

\* the last step handled a script, markdown or file edit event that carried
\* an error field, with the host callback of that event supplied
ErrorEventHandled ==
    /\ lastEvent.error
    /\ lastEvent.name \in {"spiff.script.edit", "spiff.markdown.edit",
                            "spiff.file.edit"}
    /\ OwnCallback(lastEvent.name) \in engines[lastEvent.h].cbs

\* C23: a script, markdown or file edit event that carries an error field is
\* logged and is still forwarded, once, to the supplied host callback of the
\* event with the event's element and value: the error blocks nothing.
Thm_C23_ErrorEventStillForwarded ==
    ErrorEventHandled
    => /\ logged = <<"console.error">>
       /\ Len(hostCalls) = 1
       /\ hostCalls[1] = OwnCallback(lastEvent.name)
       /\ hostArgs = <<(<<"Activity_1", "value_1">>)>>

\* a file edit event with an error field was logged and forwarded
W_C23_FileEditErrorForwarded ==
    /\ ErrorEventHandled
    /\ lastEvent.name = "spiff.file.edit"
    /\ hostCalls = <<"onLaunchJsonSchemaEditor">>
    /\ logged # <<>>

\* the task records of a list, as a set
TaskSet(t) == {TaskList(t)[i] : i \in DOMAIN TaskList(t)}

\* C24: every drill-down overlay on an engine was attached for a task record
\* of type CallActivity, of a status other than FUTURE, LIKELY and MAYBE and
\* of a process visible in the diagram, by a load made for a read-only view
\* with onCallActivityOverlayClick supplied; an engine of an editable bpmn or
\* dmn view has no overlay.
Thm_C24_OverlayOnlyWhenAllHold ==
    \A h \in DOMAIN engines :
        /\ engines[h].kind \in {"bpmn", "dmn"} => engines[h].overlays = {}
        /\ \A o \in engines[h].overlays :
              \E i \in DOMAIN engines[h].doneHandlers :
                 LET c == engines[h].doneHandlers[i]
                 IN /\ c.diagramType = "readonly"
                    /\ c.onCallActivityOverlayClick
                    /\ \E task \in TaskSet(c.tasks) :
                          /\ task.bpmn_identifier = o
                          /\ task.typename = "CallActivity"
                          /\ task.state \notin {"FUTURE", "LIKELY", "MAYBE"}
                          /\ task.bpmn_process_definition_identifier
                                \in DocProcessIdentifiers(engines[h].doc)

\* a highlight pass over a list with call activities has run in a read-only
\* view and attached an overlay to the started one, none to the MAYBE one
W_C24_OverlayAttachedReadonly ==
    \E h \in DOMAIN engines :
        /\ Highlighted(h)
        /\ engines[h].kind = "readonly"
        /\ <<"Call_1">> \in engines[h].overlays
        /\ <<"Call_2">> \notin engines[h].overlays

\* C25: a marker or overlay that cannot be applied because its node is not
\* in the diagram is skipped and the pass goes on: once the import has
\* completed nothing was raised and every record of the list whose node is
\* in the diagram has its marker.
CE_C25_MissingNodeSkipped ==
    \A h \in DOMAIN engines :
        Imported(h)
        => /\ ~engines[h].raised
           /\ \A task \in TaskSet(engines[h].doneHandlers[1].tasks) :
                 TaskMarkers(engines[h], task) \subseteq engines[h].markers

\* the positions of an entry in the log of an engine
Positions(h, entry) ==
    {i \in DOMAIN engines[h].log : engines[h].log[i] = entry}

\* C26: on a handle whose load cycle has reached Highlighted, the viewport
\* was fitted after the completion of the import was reported and before
\* the first marker and the first overlay of the cycle were applied.
Thm_C26_FitBeforeHighlight ==
    \A h \in DOMAIN engines :
        Highlighted(h)
        => \E d \in Positions(h, "done") : \E f \in Positions(h, "fit") :
              /\ d < f
              /\ \A a \in Positions(h, "marker") \cup Positions(h, "overlay") :
                    f < a

\* a successful cycle that fitted the viewport and then applied markers and
\* an overlay
W_C26_FittedThenMarked ==
    \E h \in DOMAIN engines :
        /\ Highlighted(h)
        /\ Positions(h, "marker") # {}
        /\ Positions(h, "overlay") # {}
        /\ engines[h].fits = 1

\* C27: the continuation of a request that completes after the handle it
\* was started with was destroyed or replaced does nothing: it writes no
\* document state.
CE_C27_StaleContinuationDoesNothing ==
    [][\A f \in fetches \ fetches' :
          (f.h # diagramModelerState \/ ~Live(engines, f.h))
          => UNCHANGED <<diagramXMLString, lastWrite>>]_vars

\* C28: an engine never has more than one import.done handler and one
\* import.parse.complete handler bound by the component.
CE_C28_NoDuplicateBindings ==
    \A h \in DOMAIN engines :
        /\ Len(engines[h].doneHandlers) <= 1
        /\ engines[h].parseHandlers <= 1

\* a drill-down click has set the handle to null on a view that created one
\* engine only (kind and callbacks never changed), the host has since
\* supplied an inline document that no resolution has seen, and nothing is
\* left to run
ReplacedAfterDrillDown ==
    /\ Quiescent
    /\ diagramModelerState = 0
    /\ Len(engines) = 1
    /\ engines[1].kind = diagramType
    /\ diagramXML # NoText
    /\ diagramXML # lastWrite.given.inline

\* C29: an inline document the host supplies after a drill-down click, with
\* the kind and the callbacks unchanged, is imported into a live engine: once
\* nothing is left to run a live engine shows it.
CE_C29_ReplacementShown ==
    ReplacedAfterDrillDown
    => \E h \in DOMAIN engines :
          Live(engines, h) /\ engines[h].doc = diagramXML

\* C30: the response of a request that was made for document inputs since
\* replaced, arriving after the document state was written for a later
\* resolution of other inputs, does not overwrite that document state.
CE_C30_SupersededNeverOverwrites ==
    [][\A f \in fetches \ fetches' :
          (f.id < lastWrite.id /\ f.given # lastWrite.given)
          => diagramXMLString' = diagramXMLString]_vars

\* a step that handles a submission of the form
Submitted ==
    /\ lastHandled'.op = "submit"
    /\ calls \subseteq calls'

\* C31: in the find-by-id form a submission calls the backend lookup for the
\* current id exactly when the id is not empty and its last change was
\* accepted as an integer; a submission of an empty id marks the field
\* invalid and calls nothing; and an invalid flag that stands since such a
\* submission is cleared only by a change of the input to an integer.
Thm_C31_LookupOnlyForAcceptedId ==
    [][/\ Submitted
          => /\ calls' =
                   IF /\ processInstanceId # <<>>
                      /\ lastChange.made /\ lastChange.accepted
                      /\ lastChange.value = processInstanceId
                   THEN calls \cup {FindPath(processInstanceId)}
                   ELSE calls
             /\ processInstanceId = <<>>
                   => /\ ~processInstanceIdValid'
                      /\ calls' = calls
       /\ (invalidBySubmit /\ ~processInstanceIdValid
              /\ processInstanceIdValid')
          => /\ lastHandled'.op = "change"
             /\ lastChange'.accepted
             /\ processInstanceId' = lastChange'.value
             /\ \A i \in DOMAIN processInstanceId' :
                   processInstanceId'[i] = "1"
             /\ processInstanceId' # <<>>
       /\ invalidBySubmit => ~processInstanceIdValid]_vars

\* an empty submission marked the field invalid, a change to an integer
\* cleared it, and the submission that followed called the lookup
W_C31_ClearedThenLookedUp ==
    /\ lastHandled.op = "submit"
    /\ lastChange.cleared
    /\ processInstanceIdValid
    /\ FindPath(processInstanceId) \in calls
    /\ navigated = NoPath
====
